---- MODULE Spec2Model ----
(***************************************************************************)
(* Model of the AI Video Course Analyzer (VinhKJ/vid_analys):              *)
(*   api_handler.py       ApiManager (key pool) and call_api               *)
(*   directory_scanner.py scan_course_folder                               *)
(*   file_processor.py    read_text_file, extract_audio_and_transcribe     *)
(*   gui.py               VideoAnalyzerApp.start_analysis / process_course *)
(*                                                                         *)
(* Strings are sequences of tokens: a token is either a whitespace         *)
(* character (" " or "\n") or an indivisible run of non-whitespace text.   *)
(***************************************************************************)
EXTENDS Integers, Sequences, FiniteSets, TLC

\* ------------------------------------------------------------------ bounds
\* Longest api_keys list handed to ApiManager in the pool harness.
MaxKeys == 3
\* Most get_active_key() calls made in one behaviour of the pool harness.
MaxCalls == 4
\* Most files in the course directory tree a run scans.
MaxFiles == 6
\* Most process_course worker threads alive at once (one, unless the run guard
\* fails; the cap keeps a model with a broken guard finite).
MaxThreads == 2

\* ----------------------------------------------------------------- strings
IsSpace(t) == t \in {" ", "\n"}

RECURSIVE LStrip(_)
LStrip(s) == IF s # <<>> /\ IsSpace(Head(s)) THEN LStrip(Tail(s)) ELSE s

RECURSIVE RStrip(_)
RStrip(s) ==
    IF s # <<>> /\ IsSpace(s[Len(s)]) THEN RStrip(SubSeq(s, 1, Len(s) - 1)) ELSE s

\* str.strip()
Strip(s) == RStrip(LStrip(s))

\* Python's None; `not x` is true of None and of the empty string.
None == <<"<None>">>
Falsy(x) == x = None \/ x = <<>>

Min(S) == CHOOSE x \in S : \A y \in S : x <= y

RECURSIVE SeqOver(_, _)
\* All sequences over S of length at most n.
SeqOver(S, n) ==
    IF n = 0 THEN {<<>>}
    ELSE LET shorter == SeqOver(S, n - 1)
         IN  shorter \cup {Append(q, x) : q \in {r \in shorter : Len(r) = n - 1}, x \in S}

\* ------------------------------------------------------ ApiManager (pool)
\* The lines a caller may put in an api_keys list: blank, whitespace-only,
\* plain and padded secrets.
KeyLines == {<<>>, <<" ">>, <<"a">>, <<" ", "a", " ">>, <<"b">>}

RECURSIVE UniqueSlotsFrom(_, _)
UniqueSlotsFrom(api_keys, seen) ==
    IF api_keys = <<>> THEN <<>>
    ELSE LET k == Strip(Head(api_keys))
         IN  (IF k # <<>> /\ k \notin seen THEN <<[key |-> k, active |-> TRUE]>> ELSE <<>>)
             \o UniqueSlotsFrom(Tail(api_keys), seen \cup {k})

\* Mutant: a secret already in the pool is not added again.
KeySlotsUnique(api_keys) == UniqueSlotsFrom(api_keys, {})

RECURSIVE KeySlots(_)
\* [{"key": k.strip(), "active": True} for k in api_keys if k.strip()]
KeySlots(api_keys) ==
    IF api_keys = <<>> THEN <<>>
    ELSE LET k == Head(api_keys)
         IN  (IF Strip(k) # <<>> THEN <<[key |-> Strip(k), active |-> TRUE]>> ELSE <<>>)
             \o KeySlots(Tail(api_keys))

\* ApiManager.__init__ ; current_index is 0-based as in the source.
ApiManager(api_keys) == [keys |-> KeySlots(api_keys), current_index |-> 0]

\* Mutant: the scan starts one past the cursor (a per-call round robin).
ScanSlotNext(m, i) == (m.current_index + 1 + i) % Len(m.keys)

\* Slot (0-based) examined at step i of the scan of get_active_key.
ScanSlot(m, i) == (m.current_index + i) % Len(m.keys)

\* Mutant: the scan does not look at the active flag.
SlotUsableAlways(m, idx) == TRUE

\* Is the slot usable (the test `self.keys[idx]["active"]`)?
SlotUsable(m, idx) == m.keys[idx + 1].active

\* Offsets i of range(len(keys)) at which the scan finds an active key.
ActiveOffsets(m) == {i \in 0..(Len(m.keys) - 1) : SlotUsable(m, ScanSlot(m, i))}

\* Mutant: the exhausted path rewinds the cursor.
ExhaustedResultRewind(m) == [m |-> [m EXCEPT !.current_index = 0], key |-> None]

\* What get_active_key does when the scan finds nothing.
ExhaustedResult(m) == [m |-> m, key |-> None]

\* ApiManager.get_active_key: the manager afterwards and the value returned.
get_active_key(m) ==
    IF Len(m.keys) = 0 THEN [m |-> m, key |-> None]
    ELSE IF ActiveOffsets(m) = {} THEN ExhaustedResult(m)
    ELSE LET idx == ScanSlot(m, Min(ActiveOffsets(m)))
         IN  [m |-> [m EXCEPT !.current_index = idx], key |-> m.keys[idx + 1].key]

\* Mutant: disabling also moves the cursor to the next slot.
disable_and_advance(m) ==
    IF Len(m.keys) # 0
    THEN [m EXCEPT !.keys[m.current_index + 1].active = FALSE,
                   !.current_index = (m.current_index + 1) % Len(m.keys)]
    ELSE m

\* Mutant: the first slot is disabled, whatever the cursor.
disable_first_key(m) ==
    IF Len(m.keys) # 0
    THEN [m EXCEPT !.keys[1].active = FALSE]
    ELSE m

\* ApiManager.disable_current_key
disable_current_key(m) ==
    IF Len(m.keys) # 0
    THEN [m EXCEPT !.keys[m.current_index + 1].active = FALSE]
    ELSE m


\* ------------------------------------------- directory_scanner.py (scan)
\* A file of the course tree is [dir, base, ext]: <root>/<dir>/<base>.<ext>.
\* Names in the order sorted() gives them.
DirOrder == <<"d1", "d2">>
FileOrder == <<[base |-> "v1", ext |-> "mp4"], [base |-> "v1", ext |-> "srt"],
               [base |-> "v1", ext |-> "txt"], [base |-> "v1", ext |-> "vtt"],
               [base |-> "v2", ext |-> "mp4"], [base |-> "v2", ext |-> "srt"],
               [base |-> "v2", ext |-> "txt"], [base |-> "v2", ext |-> "vtt"]>>

Range(q) == {q[i] : i \in 1..Len(q)}

\* The files a course tree is made of: two lessons in d1, one in d2; only the
\* lesson of d2 may come with a .vtt subtitle.
AllFiles ==
    {f \in {[dir |-> d, base |-> n.base, ext |-> n.ext] :
                d \in Range(DirOrder), n \in Range(FileOrder)} :
        /\ f.dir = "d2" => f.base = "v1"
        /\ f.ext = "vtt" => f.dir = "d2"}

\* The course trees a scan may find: up to MaxFiles files.
CourseTrees == {tree \in SUBSET AllFiles : Cardinality(tree) <= MaxFiles}

\* os.path.isfile(os.path.join(folder, base_name + ext))
IsFile(tree, folder, base, ext) == [dir |-> folder, base |-> base, ext |-> ext] \in tree

\* None where a path is expected (kept comparable with paths).
NoPath == [dir |-> "", base |-> "", ext |-> ""]

RECURSIVE FirstExisting(_, _, _, _)
\* The first candidate of `exts` that is a file (the for/break loops), else None.
FirstExisting(tree, folder, base, exts) ==
    IF exts = <<>> THEN NoPath
    ELSE IF IsFile(tree, folder, base, Head(exts))
         THEN [dir |-> folder, base |-> base, ext |-> Head(exts)]
         ELSE FirstExisting(tree, folder, base, Tail(exts))

\* _find_associated_text_files
find_associated_text_files(tree, folder, base) ==
    [subtitle |-> FirstExisting(tree, folder, base, <<"srt", "vtt">>),
     text     |-> FirstExisting(tree, folder, base, <<"txt">>)]

\* sorted(os.listdir(subdir_path))
SortedListing(tree, folder) ==
    SelectSeq(FileOrder, LAMBDA f : IsFile(tree, folder, f.base, f.ext))

RECURSIVE VideosOf(_, _, _)
\* The inner loop of scan_course_folder over the sorted file names.
VideosOf(tree, folder, names) ==
    IF names = <<>> THEN <<>>
    ELSE LET f == Head(names)
             assoc == find_associated_text_files(tree, folder, f.base)
         IN  (IF f.ext = "mp4"
              THEN <<[video    |-> [dir |-> folder, base |-> f.base, ext |-> f.ext],
                      subtitle |-> assoc.subtitle,
                      text     |-> assoc.text]>>
              ELSE <<>>)
             \o VideosOf(tree, folder, Tail(names))

RECURSIVE ScanDirs(_, _)
\* The outer loop of scan_course_folder over the sorted sub-directories.
ScanDirs(tree, dirs) ==
    IF dirs = <<>> THEN <<>>
    ELSE LET d == Head(dirs)
             videos == VideosOf(tree, d, SortedListing(tree, d))
         IN  (IF videos # <<>> THEN <<[folder |-> d, videos |-> videos]>> ELSE <<>>)
             \o ScanDirs(tree, Tail(dirs))

\* scan_course_folder: the insertion-ordered dict as a sequence of
\* [folder, videos]; a sub-directory exists when the tree has a file in it.
scan_course_folder(tree) ==
    ScanDirs(tree, SelectSeq(DirOrder, LAMBDA d : \E f \in tree : f.dir = d))

\* os.path.basename(video_path)
Basename(path) == [base |-> path.base, ext |-> path.ext]

\* ---------------------------------------------------- content and prompt
\* What read_text_file may return for a sidecar: its contents, or "" when the
\* read fails.
FileTexts == {<<>>, <<"c">>}

\* The same for a subtitle file (.srt or .vtt), whose text is cue text.
SubtitleTexts == {<<>>, <<"cue">>}

\* extract_audio_and_transcribe is declared with two parameters
\* (video_path, api_key) and called with one.
TranscribeParams == 2
TranscribeArgs == 1

\* "\n".join(content_parts)
RECURSIVE JoinLines(_)
JoinLines(parts) ==
    IF parts = <<>> THEN <<>>
    ELSE IF Len(parts) = 1 THEN parts[1]
    ELSE parts[1] \o <<"\n">> \o JoinLines(Tail(parts))

\* Mutant: the separator and the extra prompt are appended even when the extra
\* prompt is empty.
BuildPromptAlwaysExtra(system_instruction, combined_content, extra_prompt) ==
    Strip(system_instruction \o <<"\n", "\n", "Noi", " ", "dung", " ", "video:", "\n">>
          \o combined_content)
    \o <<"\n", "\n">> \o extra_prompt

\* The prompt of process_course; "Noi" stands for the source's "N\u1ed9i".
BuildPrompt(system_instruction, combined_content, extra_prompt) ==
    LET base == Strip(system_instruction \o <<"\n", "\n", "Noi", " ", "dung", " ", "video:", "\n">>
                      \o combined_content)
    IN  IF extra_prompt # <<>> THEN base \o <<"\n", "\n">> \o extra_prompt ELSE base

\* ------------------------------------------------------ call_api (gateway)
\* What the provider does with a request: it answers with a text, or the
\* client raises with a message holding some of the phrases call_api looks for.
ProviderResults ==
    {[kind |-> "text", text |-> t] :
        t \in {<<"x">>, <<" ", "x", "\n">>, <<"x", " ", "TOKEN_LIMIT">>}}
    \cup
    {[kind |-> "exc", phrases |-> ph] :
        ph \in {{}, {"api key", "invalid"}, {"token"}, {"too long"},
                {"api key", "invalid", "token"}}}

\* Mutant: an error that is neither an invalid key nor a token limit is
\* returned as text instead of being raised again.
call_api_swallow(provider) ==
    IF provider.kind = "text" THEN [raised |-> FALSE, value |-> Strip(provider.text)]
    ELSE IF {"api key", "invalid"} \subseteq provider.phrases
         THEN [raised |-> TRUE, value |-> "PermissionError"]
    ELSE IF "too long" \in provider.phrases \/ "token" \in provider.phrases
         THEN [raised |-> FALSE, value |-> <<"TOKEN_LIMIT">>]
    ELSE [raised |-> FALSE, value |-> <<"error">>]

\* call_api: [raised, value] - the string returned, or the exception raised.
call_api(provider) ==
    IF provider.kind = "text" THEN [raised |-> FALSE, value |-> Strip(provider.text)]
    ELSE IF {"api key", "invalid"} \subseteq provider.phrases
         THEN [raised |-> TRUE, value |-> "PermissionError"]
    ELSE IF "too long" \in provider.phrases \/ "token" \in provider.phrases
         THEN [raised |-> FALSE, value |-> <<"TOKEN_LIMIT">>]
    ELSE [raised |-> TRUE, value |-> "Exception"]

\* `"TOKEN_LIMIT" in response`
HasTokenLimitMarker(response) == \E i \in 1..Len(response) : response[i] = "TOKEN_LIMIT"

\* --------------------------------------------------------------- variables
VARIABLES
    pool,        \* harness: an ApiManager driven directly through its two methods
    last_op,     \* harness: "init", "get" or "disable", the last method called
    returned,    \* harness: per get_active_key call, the slot returned (-1 for None)
    disabled_at, \* harness: slots that were current when disable_current_key ran
    analysis_in_progress, \* VideoAnalyzerApp.analysis_in_progress
    start_button,         \* state of the start button: "normal" or "disabled"
    pending_enable,       \* master.after callbacks re-enabling the button, not yet run
    log_text,             \* the messages _log posted since the log was last cleared
    gui_note,             \* how the GUI answered the last start request that began no run
    study_guide,          \* study_guide.txt: Absent, or the chunks written to it
    threads               \* the live process_course worker threads, oldest first

poolvars == <<pool, last_op, returned, disabled_at>>

appvars == <<analysis_in_progress, start_button, pending_enable, log_text, gui_note,
             study_guide, threads>>

vars == <<pool, last_op, returned, disabled_at, analysis_in_progress, start_button,
          pending_enable, log_text, gui_note, study_guide, threads>>

\* No study_guide.txt on disk.
Absent == <<"<absent>">>

\* --------------------------------------------------------- pool harness
PoolInit ==
    /\ \E api_keys \in SeqOver(KeyLines, MaxKeys) : pool = ApiManager(api_keys)
    /\ last_op = "init"
    /\ returned = <<>>
    /\ disabled_at = {}
    /\ analysis_in_progress = FALSE
    /\ start_button = "normal"
    /\ pending_enable = 0
    /\ log_text = <<>>
    /\ gui_note = "none"
    /\ study_guide = Absent
    /\ threads = <<>>

\* A caller invokes get_active_key().
PoolGet ==
    /\ Len(returned) < MaxCalls
    /\ LET r == get_active_key(pool)
       IN  /\ pool' = r.m
           /\ returned' = Append(returned, IF r.key = None THEN -1 ELSE r.m.current_index)
    /\ last_op' = "get"
    /\ UNCHANGED <<disabled_at, appvars>>

\* A caller invokes disable_current_key().
PoolDisable ==
    /\ pool' = disable_current_key(pool)
    /\ last_op' = "disable"
    /\ disabled_at' = IF Len(pool.keys) # 0
                      THEN disabled_at \cup {pool.current_index}
                      ELSE disabled_at
    /\ UNCHANGED <<returned, appvars>>

PoolNext == PoolGet \/ PoolDisable

SpecPool == PoolInit /\ [][PoolNext]_vars


\* ------------------------------------------------------- gui.py: the GUI
\* What the user may have typed when the start button is pressed.
SystemInstructionTexts == {<<"\n">>, <<"s", "\n">>}
CoursePaths == {"", "nodir", "course"}
ExtraPrompts == {<<>>, <<" ", "e">>}
KeyTexts == {<<"\n">>,
             <<"a", "\n">>,
             <<"a", "\n", "b", "\n">>,
             <<"a", "\n", "b", "\n", "c">>,
             <<" ", "a", "\n", " ", "\n", "a", "\n">>}

\* os.path.isdir(course_path) in start_analysis
IsDir(course_path) == course_path = "course"

FirstNewline(s) ==
    IF \E i \in 1..Len(s) : s[i] = "\n"
    THEN Min({i \in 1..Len(s) : s[i] = "\n"}) ELSE 0

RECURSIVE SplitLines(_)
\* str.splitlines()
SplitLines(s) ==
    IF s = <<>> THEN <<>>
    ELSE IF FirstNewline(s) = 0 THEN <<s>>
    ELSE <<SubSeq(s, 1, FirstNewline(s) - 1)>>
         \o SplitLines(SubSeq(s, FirstNewline(s) + 1, Len(s)))

RECURSIVE StripNonBlank(_)
\* [key.strip() for key in lines if key.strip()]
StripNonBlank(lines) ==
    IF lines = <<>> THEN <<>>
    ELSE (IF Strip(Head(lines)) # <<>> THEN <<Strip(Head(lines))>> ELSE <<>>)
         \o StripNonBlank(Tail(lines))

\* api_keys of start_analysis, from the text of the keys box.
ParseKeys(api_keys_input) == StripNonBlank(SplitLines(Strip(api_keys_input)))

\* The locals of a process_course thread as it starts; api_keys_textbox is the
\* text of the keys box that start_analysis parsed into api_keys.
NewThread(system_instruction, course_path, extra_prompt, api_keys_textbox, api_keys) ==
    [pc                 |-> "scan",
     system_instruction |-> system_instruction,
     course_path        |-> course_path,
     extra_prompt       |-> extra_prompt,
     api_keys_textbox   |-> api_keys_textbox,
     api_keys           |-> api_keys,
     course_structure   |-> <<>>,
     api_manager        |-> ApiManager(<<>>),
     token_limit_videos |-> <<>>,
     file_open          |-> FALSE,
     fi                 |-> 0,
     vi                 |-> 0,
     content_parts      |-> <<>>,
     combined_content   |-> <<>>,
     prompt             |-> <<>>,
     key                |-> None,
     calls              |-> <<>>,
     status             |-> "Running"]

\* Mutant: the button is never disabled, every press reaches start_analysis.
ButtonLiveAlways == TRUE

\* May a press of the start button reach start_analysis? (Tk drops the
\* presses of a disabled button.)
ButtonLive == start_button = "normal"

\* The test of start_analysis that refuses a second run.
RunInProgress == analysis_in_progress

\* A press of the start button while it is disabled: nothing runs.
StartClickIgnored ==
    /\ ~ButtonLive
    /\ gui_note' = "ignored"
    /\ UNCHANGED <<analysis_in_progress, start_button, pending_enable, log_text,
                   study_guide, threads, poolvars>>

\* start_analysis, on the GUI thread.
StartAnalysis ==
    /\ ButtonLive
    /\ \E sit \in SystemInstructionTexts, cp \in CoursePaths,
          ep \in ExtraPrompts, kt \in KeyTexts :
         LET system_instruction == Strip(sit)
             course_path == cp
             extra_prompt == Strip(ep)
             api_keys == ParseKeys(kt)
             refusal == IF RunInProgress THEN "busy"
                        ELSE IF system_instruction = <<>> THEN "warn_instruction"
                        ELSE IF course_path = "" \/ ~IsDir(course_path) THEN "warn_folder"
                        ELSE IF api_keys = <<>> THEN "warn_keys"
                        ELSE "none"
         IN  IF refusal # "none"
             THEN /\ gui_note' = refusal
                  /\ UNCHANGED <<analysis_in_progress, start_button, pending_enable,
                                 log_text, study_guide, threads>>
             ELSE /\ Len(threads) < MaxThreads
                  /\ log_text' = <<>>
                  /\ start_button' = "disabled"
                  /\ analysis_in_progress' = TRUE
                  /\ threads' = Append(threads,
                        NewThread(system_instruction, course_path, extra_prompt,
                                  kt, api_keys))
                  /\ gui_note' = "none"
                  /\ UNCHANGED <<pending_enable, study_guide>>
    /\ UNCHANGED poolvars

\* The callback of master.after(0, ...) that re-enables the start button.
EnableButton ==
    /\ pending_enable > 0
    /\ start_button' = "normal"
    /\ pending_enable' = pending_enable - 1
    /\ UNCHANGED <<analysis_in_progress, log_text, gui_note, study_guide, threads, poolvars>>

\* ------------------------------------------- gui.py: process_course
RemoveAt(q, t) == SubSeq(q, 1, t - 1) \o SubSeq(q, t + 1, Len(q))

\* Mutant: the flag is reset on no exit path (the body is left for the last
\* statement, past line 229).
LeaveWithoutReset(w, status) ==
    [w EXCEPT !.pc = "reenable", !.status = status, !.file_open = FALSE]

\* Leaving the `with` block and the function body for the finally clause.
Leave(w, status) == [w EXCEPT !.pc = "finally", !.status = status, !.file_open = FALSE]

\* Mutant: the scan result is not tested, the run goes on with no videos.
CatalogEmptyNever(course_structure) == FALSE

\* `if not course_structure:` (line 163)
CatalogEmpty(course_structure) == course_structure = <<>>

\* Lines 156-176: scan the course folder, build the ApiManager and open the
\* output document; open(output_path, "w") creates or truncates it.
WorkerScan(t) ==
    /\ threads[t].pc = "scan"
    /\ LET w == threads[t]
           started == Append(log_text, <<"scan", w.course_path>>)
       IN  \/ \* scan_course_folder raises (the folder is gone or unreadable)
              /\ log_text' = Append(started, <<"scan_error">>)
              /\ threads' = [threads EXCEPT ![t] = Leave(w, "ScanError")]
              /\ UNCHANGED study_guide
           \/ \E tree \in CourseTrees :
                LET course_structure == scan_course_folder(tree)
                IN  IF CatalogEmpty(course_structure)
                    THEN /\ log_text' = Append(started, <<"no_videos">>)
                         /\ threads' = [threads EXCEPT ![t] = Leave(w, "EmptyCatalog")]
                         /\ UNCHANGED study_guide
                    ELSE /\ log_text' = Append(started, <<"output">>)
                         /\ study_guide' = <<>>
                         /\ threads' = [threads EXCEPT ![t] =
                                [w EXCEPT !.pc = "folder",
                                          !.course_structure = course_structure,
                                          !.api_manager = ApiManager(w.api_keys),
                                          !.token_limit_videos = <<>>,
                                          !.file_open = TRUE,
                                          !.fi = 1]]
    /\ UNCHANGED <<analysis_in_progress, start_button, pending_enable, gui_note, poolvars>>

\* Mutant: the folder heading is not written.
NoHeadingChunks(folder) == <<>>

\* out_file.write(f"# {folder_name}\n") (line 178)
HeadingChunks(folder) == <<<<"#", folder>>>>

\* Lines 177-178: the head of the folder loop and the folder heading; when
\* the folders are used up the `with` block closes the document.
WorkerFolder(t) ==
    /\ threads[t].pc = "folder"
    /\ LET w == threads[t]
       IN  IF w.fi > Len(w.course_structure)
           THEN /\ threads' = [threads EXCEPT ![t] =
                        [w EXCEPT !.pc = "report", !.file_open = FALSE]]
                /\ UNCHANGED study_guide
           ELSE /\ study_guide' = study_guide \o HeadingChunks(w.course_structure[w.fi].folder)
                /\ threads' = [threads EXCEPT ![t] = [w EXCEPT !.pc = "item", !.vi = 1]]
    /\ UNCHANGED <<analysis_in_progress, start_button, pending_enable, log_text,
                   gui_note, poolvars>>

\* Mutant: the text file is read only when there is no subtitle (elif).
ContentPartsFirstOnly(entry, subtitle_text, text_text) ==
    IF entry.subtitle # NoPath THEN <<subtitle_text>>
    ELSE IF entry.text # NoPath THEN <<text_text>>
    ELSE <<>>

\* The content_parts of lines 186-193 before the transcription fall-back, given
\* what the two reads return.
ContentParts(entry, subtitle_text, text_text) ==
    (IF entry.subtitle # NoPath THEN <<subtitle_text>> ELSE <<>>)
    \o (IF entry.text # NoPath /\ entry.text # entry.subtitle THEN <<text_text>> ELSE <<>>)

\* Does the call extract_audio_and_transcribe(video_path) raise TypeError?
TranscribeCallRaises == TranscribeArgs # TranscribeParams

\* Mutant: the result of get_active_key is not tested.
KeyMissingNever(key) == FALSE

\* `if not key:` (line 203)
KeyMissing(key) == Falsy(key)

\* Lines 180-205: resolve the content, compose the prompt, get a key.
WorkerItem(t) ==
    /\ threads[t].pc = "item"
    /\ \E subtitle_text \in SubtitleTexts, text_text \in FileTexts, transcript \in FileTexts :
         LET w == threads[t]
             entry == w.course_structure[w.fi].videos[w.vi]
             logged == Append(log_text, <<"video", Basename(entry.video)>>)
             read_parts == ContentParts(entry, subtitle_text, text_text)
             content_parts == IF read_parts = <<>> THEN <<transcript>> ELSE read_parts
             prompt == BuildPrompt(w.system_instruction, JoinLines(content_parts), w.extra_prompt)
             got == get_active_key(w.api_manager)
         IN  IF read_parts = <<>> /\ TranscribeCallRaises
             THEN \* TypeError leaves the loop, the with block and the function
                  /\ log_text' = logged
                  /\ threads' = [threads EXCEPT ![t] = Leave(w, "Crashed")]
             ELSE IF KeyMissing(got.key)
             THEN /\ log_text' = Append(logged, <<"no_keys">>)
                  /\ threads' = [threads EXCEPT ![t] =
                          Leave([w EXCEPT !.api_manager = got.m], "NoActiveKeys")]
             ELSE /\ log_text' = logged
                  /\ threads' = [threads EXCEPT ![t] =
                          [w EXCEPT !.pc = "call", !.api_manager = got.m,
                                    !.content_parts = content_parts,
                                    !.combined_content = JoinLines(content_parts),
                                    !.key = got.key, !.prompt = prompt]]
    /\ UNCHANGED <<analysis_in_progress, start_button, pending_enable, gui_note,
                   study_guide, poolvars>>

\* What happened at the provider, in the terms of the AIGateway contract: a
\* text is Generated; an error naming an invalid API key is AuthError; another
\* error about tokens or length is TokenLimited; any other is TransportError.
GatewayClass(provider) ==
    IF provider.kind = "text" THEN "Generated"
    ELSE IF {"api key", "invalid"} \subseteq provider.phrases THEN "AuthError"
    ELSE IF provider.phrases \cap {"too long", "token"} # {} THEN "TokenLimited"
    ELSE "TransportError"

\* The loop indices after the current item: next video, or next folder.
Advance(w) ==
    IF w.vi < Len(w.course_structure[w.fi].videos)
    THEN [w EXCEPT !.pc = "item", !.vi = w.vi + 1, !.key = None, !.prompt = <<>>,
                   !.content_parts = <<>>, !.combined_content = <<>>]
    ELSE [w EXCEPT !.pc = "folder", !.fi = w.fi + 1, !.key = None, !.prompt = <<>>,
                   !.content_parts = <<>>, !.combined_content = <<>>]

\* Mutant: the except clause leaves the key enabled.
AfterApiErrorKeepKey(m) == m

\* The manager after the except clause of lines 215-219.
AfterApiError(m) == disable_current_key(m)

\* Mutant: the response is never tested for the marker.
IsTokenLimitResponseNever(response) == FALSE

\* The branch of line 209 that treats the response as over the token limit.
IsTokenLimitResponse(response) == HasTokenLimitMarker(response)

\* Lines 206-219: call the gateway and act on its answer. content_parts,
\* combined_content, prompt and key are not read again before the next item
\* assigns them; the model forgets them.
WorkerCall(t) ==
    /\ threads[t].pc = "call"
    /\ \E provider \in ProviderResults :
         LET w == threads[t]
             entry == w.course_structure[w.fi].videos[w.vi]
             res == call_api(provider)
             outcome == IF res.raised THEN "Skipped"
                        ELSE IF IsTokenLimitResponse(res.value) THEN "TokenLimited"
                        ELSE "Summarized"
             call == [fi |-> w.fi, vi |-> w.vi, slot |-> w.api_manager.current_index,
                      key |-> w.key, gateway |-> GatewayClass(provider),
                      response |-> IF res.raised THEN <<>> ELSE res.value,
                      outcome |-> outcome]
             w1 == [w EXCEPT !.calls = Append(w.calls, call)]
         IN  CASE outcome = "Skipped" ->
                  /\ log_text' = Append(log_text, <<"api_error", w.key, res.value>>)
                  /\ threads' = [threads EXCEPT ![t] =
                          Advance([w1 EXCEPT !.api_manager = AfterApiError(w.api_manager)])]
                  /\ UNCHANGED study_guide
             [] outcome = "TokenLimited" ->
                  /\ log_text' = Append(log_text, <<"token_limit", entry.video>>)
                  /\ threads' = [threads EXCEPT ![t] =
                          Advance([w1 EXCEPT !.token_limit_videos =
                                      Append(w.token_limit_videos, Basename(entry.video))])]
                  /\ UNCHANGED study_guide
             [] outcome = "Summarized" ->
                  /\ study_guide' = study_guide \o <<<<"##", Basename(entry.video)>>,
                                                     <<"body", Strip(res.value)>>>>
                  /\ threads' = [threads EXCEPT ![t] = Advance(w1)]
                  /\ UNCHANGED log_text
    /\ UNCHANGED <<analysis_in_progress, start_button, pending_enable, gui_note, poolvars>>

\* Mutant: the summary lists the videos latest first.
TokenLimitReportReversed(token_limit_videos) ==
    IF token_limit_videos # <<>>
    THEN <<<<"token_summary">>>>
         \o [i \in 1..Len(token_limit_videos) |->
                <<"-", token_limit_videos[Len(token_limit_videos) + 1 - i]>>]
    ELSE <<>>

\* The lines of the over-limit summary (lines 221-224).
TokenLimitReport(token_limit_videos) ==
    IF token_limit_videos # <<>>
    THEN <<<<"token_summary">>>> \o [i \in 1..Len(token_limit_videos) |-> <<"-", token_limit_videos[i]>>]
    ELSE <<>>

\* Lines 221-226: the over-limit summary and the closing message.
WorkerReport(t) ==
    /\ threads[t].pc = "report"
    /\ log_text' = log_text \o TokenLimitReport(threads[t].token_limit_videos) \o <<<<"done">>>>
    /\ threads' = [threads EXCEPT ![t] = Leave(threads[t], "Completed")]
    /\ UNCHANGED <<analysis_in_progress, start_button, pending_enable, gui_note,
                   study_guide, poolvars>>

\* Line 229, first statement of the finally clause.
WorkerFinally(t) ==
    /\ threads[t].pc = "finally"
    /\ analysis_in_progress' = FALSE
    /\ threads' = [threads EXCEPT ![t] = [threads[t] EXCEPT !.pc = "reenable"]]
    /\ UNCHANGED <<start_button, pending_enable, log_text, gui_note, study_guide, poolvars>>

\* Line 230: schedule the re-enabling of the button; the thread ends.
WorkerReenable(t) ==
    /\ threads[t].pc = "reenable"
    /\ pending_enable' = pending_enable + 1
    /\ threads' = RemoveAt(threads, t)
    /\ UNCHANGED <<analysis_in_progress, start_button, log_text, gui_note, study_guide,
                   poolvars>>

Init ==
    /\ pool = ApiManager(<<>>)
    /\ last_op = "init"
    /\ returned = <<>>
    /\ disabled_at = {}
    /\ analysis_in_progress = FALSE
    /\ start_button = "normal"
    /\ pending_enable = 0
    /\ log_text = <<>>
    /\ gui_note = "none"
    /\ study_guide = Absent
    /\ threads = <<>>

\* One step of some live worker thread, by the line of code it is at.
ScanStep == \E t \in 1..Len(threads) : WorkerScan(t)
FolderStep == \E t \in 1..Len(threads) : WorkerFolder(t)
ItemStep == \E t \in 1..Len(threads) : WorkerItem(t)
CallStep == \E t \in 1..Len(threads) : WorkerCall(t)
ReportStep == \E t \in 1..Len(threads) : WorkerReport(t)
FinallyStep == \E t \in 1..Len(threads) : WorkerFinally(t)
ReenableStep == \E t \in 1..Len(threads) : WorkerReenable(t)

Next ==
    \/ StartClickIgnored
    \/ StartAnalysis
    \/ EnableButton
    \/ ScanStep
    \/ FolderStep
    \/ ItemStep
    \/ CallStep
    \/ ReportStep
    \/ FinallyStep
    \/ ReenableStep

Spec == Init /\ [][Next]_vars

\* ------------------------------------------ the program under its scheduler
\* The course folders the runs of SpecLive scan: those whose videos all lie in
\* one sub-folder (one or two lessons, with any sidecars).
LiveDirs == {"d1"}
LiveScope ==
    \A t \in 1..Len(threads) : \A i \in 1..Len(threads[t].course_structure) :
        threads[t].course_structure[i].folder \in LiveDirs

\* The scan step over such a course folder.
LiveScanStep == ScanStep /\ LiveScope'

\* Any step of a live worker thread.
WorkerStep ==
    \/ LiveScanStep
    \/ FolderStep
    \/ ItemStep
    \/ CallStep
    \/ ReportStep
    \/ FinallyStep
    \/ ReenableStep

LiveNext ==
    \/ StartClickIgnored
    \/ StartAnalysis
    \/ EnableButton
    \/ LiveScanStep
    \/ FolderStep
    \/ ItemStep
    \/ CallStep
    \/ ReportStep
    \/ FinallyStep
    \/ ReenableStep

\* The scheduling the program runs under: a live worker thread keeps being
\* run (every call it makes returns or raises), and the Tk main loop runs
\* the callbacks handed to master.after. Nothing is assumed of the user.
Fairness ==
    /\ WF_vars(WorkerStep)
    /\ WF_vars(EnableButton)

SpecLive == Init /\ [][LiveNext]_vars /\ Fairness

\* ------------------------------------------------ claims on the key pool
NKeys == Len(pool.keys)
LastReturned == returned[Len(returned)]
AllInactive(m) == \A i \in 1..Len(m.keys) : ~m.keys[i].active

\* C1 as stated: with N >= 1 credentials and none disabled, consecutive
\* get_active_key() calls return slots 0, 1, ..., N-1 in insertion order (each
\* exactly once) before any slot repeats.
C1_RoundRobin ==
    (NKeys >= 1 /\ disabled_at = {}) =>
        \A j \in 1..Len(returned) : returned[j] = (j - 1) % NKeys

\* C1 amended: with N >= 1 credentials and none disabled, every one of any
\* number of consecutive get_active_key() calls returns the credential in slot 0:
\* a successful call leaves the cursor on the slot it returned.
C1_StickyFirst ==
    (NKeys >= 1 /\ disabled_at = {}) =>
        \A j \in 1..Len(returned) : returned[j] = 0

\* N >= 2 credentials, none disabled, at least N calls made.
C1_Witness == NKeys >= 2 /\ disabled_at = {} /\ Len(returned) >= NKeys

\* C2: a slot on which disable_current_key() ran is inactive ever after (flags
\* only go from active to inactive, and only by a disable), and no later
\* get_active_key() returns that slot.
C2_DisabledNeverReturned ==
    /\ \A i \in 1..NKeys : pool.keys[i].active <=> (i - 1) \notin disabled_at
    /\ (last_op = "get" /\ LastReturned # -1) => LastReturned \notin disabled_at

\* A credential was returned, disabled, and a later call returned another one.
C2_Witness ==
    /\ last_op = "get" /\ Len(returned) >= 2
    /\ LastReturned # -1
    /\ returned[Len(returned) - 1] \in disabled_at

\* C3: a get_active_key() call made when every credential is disabled (or the
\* pool is empty) returns None and leaves cursor and active flags as they were.
C3_ExhaustedIsTerminal ==
    [][(Len(returned') = Len(returned) + 1 /\ AllInactive(pool)) =>
          (returned'[Len(returned')] = -1 /\ pool' = pool)]_vars

\* Two calls in a row answered None by a non-empty pool whose cursor has moved.
C3_Witness ==
    /\ NKeys >= 2 /\ AllInactive(pool) /\ pool.current_index # 0
    /\ last_op = "get" /\ Len(returned) >= 2
    /\ LastReturned = -1 /\ returned[Len(returned) - 1] = -1

\* ------------------------------------------- claims on the orchestrator
\* The one worker thread, when there is exactly one.
OneWorker == Len(threads) = 1
W == threads[1]

\* Is item a before item b in catalog order?
Before(a, b) == a.fi < b.fi \/ (a.fi = b.fi /\ a.vi < b.vi)

\* Did this step of the one worker make a gateway call (lines 206-219)?
CallMade == OneWorker /\ Len(threads') = 1 /\ Len(threads'[1].calls) = Len(W.calls) + 1
LastCall(w) == w.calls[Len(w.calls)]

\* Has the worker passed line 176 (the document is this run's)?
Opened(w) == w.fi >= 1

\* Has the run ended (the worker is in or past its finally clause)?
Ended(w) == w.pc \in {"finally", "reenable"}

VideoAt(w, c) == w.course_structure[c.fi].videos[c.vi].video

Failed(c) == c.gateway \in {"AuthError", "TransportError"}

\* C4: when the key request of an item finds the pool exhausted the run ends
\* with NoActiveKeys in that very step, with no gateway call for that item and
\* the document as it was; a run ended that way has calls only for earlier
\* items, its document is closed, and nothing is called or written afterwards.
C4_AbortOnExhaustion ==
    [][/\ (/\ OneWorker /\ Len(threads') = 1 /\ W.pc = "item" /\ threads'[1].pc # "item"
           /\ ContentParts(W.course_structure[W.fi].videos[W.vi], <<>>, <<>>) # <<>>
           /\ get_active_key(W.api_manager).key = None)
          => /\ threads'[1].pc = "finally" /\ threads'[1].status = "NoActiveKeys"
             /\ threads'[1].calls = W.calls
             /\ study_guide' = study_guide
             /\ ~threads'[1].file_open
       /\ (OneWorker /\ Ended(W) /\ W.status = "NoActiveKeys")
          => /\ \A i \in 1..Len(W.calls) : Before(W.calls[i], W)
             /\ AllInactive(W.api_manager)
             /\ study_guide' = study_guide
             /\ Len(threads') = 1 => threads'[1].calls = W.calls]_vars

\* A run aborted with NoActiveKeys after it had written an item body, with
\* items left unprocessed.
C4_Witness ==
    /\ OneWorker /\ W.pc = "finally" /\ W.status = "NoActiveKeys"
    /\ \E i \in 1..Len(study_guide) : study_guide[i][1] = "body"
    /\ Len(W.calls) = 2

RECURSIVE ItemChunks(_, _)
\* The item sections the calls of a worker should have produced.
ItemChunks(w, calls) ==
    IF calls = <<>> THEN <<>>
    ELSE (IF Head(calls).outcome = "Summarized"
          THEN <<<<"##", Basename(VideoAt(w, Head(calls)))>>, <<"body", Head(calls).response>>>>
          ELSE <<>>)
         \o ItemChunks(w, Tail(calls))

NotHeading(chunk) == chunk[1] # "#"
IsHeading(chunk) == chunk[1] = "#"

\* C6: the item sections in the document are exactly those of the calls with
\* outcome Summarized, in the order of the calls, which is catalog order, one
\* per item; and only a Generated answer is ever Summarized.
C6_BodiesOnlyForGenerated ==
    (OneWorker /\ Opened(W)) =>
        /\ SelectSeq(study_guide, NotHeading) = ItemChunks(W, W.calls)
        /\ \A i \in 1..Len(W.calls) :
              W.calls[i].outcome = "Summarized" => W.calls[i].gateway = "Generated"
        /\ \A i, j \in 1..Len(W.calls) : i < j => Before(W.calls[i], W.calls[j])

\* Three items: the first and the third summarized, the second not.
C6_Witness ==
    /\ OneWorker /\ Len(W.calls) = 3
    /\ W.calls[1].outcome = "Summarized" /\ W.calls[2].outcome # "Summarized"
    /\ W.calls[3].outcome = "Summarized"
    /\ Len(SelectSeq(study_guide, NotHeading)) = 4

\* The headings of the first n folders of the catalog.
FolderHeadings(w, n) == [i \in 1..n |-> <<"#", w.course_structure[i].folder>>]

\* C7 as stated, for the runs that end Completed or with NoActiveKeys: at the
\* end of a run that opened the document, the document has one heading for
\* every folder of the catalog, in catalog order.
C7_AllHeadingsAtEnd ==
    (OneWorker /\ Opened(W) /\ Ended(W) /\ W.status \in {"Completed", "NoActiveKeys"}) =>
        SelectSeq(study_guide, IsHeading) = FolderHeadings(W, Len(W.course_structure))

\* C7 amended: at the end of a run that opened the document, the document
\* has exactly one heading for each folder the loop reached - the folders up
\* to the one being processed when the run ended - in catalog order, whatever
\* the outcomes of the items; these are all the catalog's folders when the run
\* ends Completed.
C7_HeadingsOfReachedFolders ==
    (OneWorker /\ Opened(W) /\ Ended(W)) =>
        /\ SelectSeq(study_guide, IsHeading) =
              FolderHeadings(W, IF W.fi > Len(W.course_structure)
                                THEN Len(W.course_structure) ELSE W.fi)
        /\ W.status = "Completed" => W.fi > Len(W.course_structure)

\* A run ended by NoActiveKeys in the first of two folders.
C7_Witness ==
    /\ OneWorker /\ Ended(W) /\ W.status = "NoActiveKeys"
    /\ W.fi = 1 /\ Len(W.course_structure) = 2

\* C8: a gateway call answered TokenLimited leaves the manager (flags and
\* cursor) and the document as they were, appends the video to
\* token_limit_videos and goes on to the next item; a call answered Generated
\* leaves the manager as it was; and no step but a failed gateway call changes
\* an active flag.
C8_PoolOnlyChangedByFailure ==
    [][/\ CallMade =>
            LET c == LastCall(threads'[1]) IN
            /\ c.gateway \in {"TokenLimited", "Generated"} =>
                  threads'[1].api_manager = W.api_manager
            /\ c.gateway = "TokenLimited" =>
                  /\ study_guide' = study_guide
                  /\ threads'[1].token_limit_videos =
                        Append(W.token_limit_videos, Basename(VideoAt(W, c)))
                  /\ threads'[1].pc \in {"item", "folder"}
                  /\ Before(c, threads'[1])
       /\ (OneWorker /\ Len(threads') = 1 /\ Opened(W)
           /\ threads'[1].api_manager.keys # W.api_manager.keys)
          => CallMade /\ Failed(LastCall(threads'[1]))]_vars

\* A TokenLimited answer, then a later item called with the same slot.
C8_Witness ==
    /\ OneWorker /\ Len(W.calls) = 2
    /\ W.calls[1].gateway = "TokenLimited" /\ W.calls[1].outcome = "TokenLimited"
    /\ W.calls[2].slot = W.calls[1].slot
    /\ W.token_limit_videos # <<>>

RECURSIVE TokenLimitedNames(_, _)
\* The videos whose outcome was TokenLimited, in the order of the calls.
TokenLimitedNames(w, calls) ==
    IF calls = <<>> THEN <<>>
    ELSE (IF Head(calls).outcome = "TokenLimited"
          THEN <<Basename(VideoAt(w, Head(calls)))>> ELSE <<>>)
         \o TokenLimitedNames(w, Tail(calls))

IsReportLine(msg) == msg[1] = "-"
ReportedVideos == [i \in 1..Len(SelectSeq(log_text, IsReportLine)) |->
                      SelectSeq(log_text, IsReportLine)[i][2]]

\* C9 as stated, for the runs that end Completed or with NoActiveKeys: at the
\* end of the run the over-limit report lists every item whose outcome was
\* TokenLimited, in catalog order.
C9_ReportAtEveryEnd ==
    (OneWorker /\ Ended(W) /\ W.status \in {"Completed", "NoActiveKeys"}) =>
        ReportedVideos = TokenLimitedNames(W, W.calls)

\* C9 amended: a run that gets through all its items ends Completed whether or
\* not items were TokenLimited, and its over-limit report lists exactly the
\* items whose outcome was TokenLimited, in catalog order; a run that ends
\* earlier (NoActiveKeys included) emits no over-limit report.
C9_ReportWhenCompleted ==
    (OneWorker /\ Ended(W)) =>
        /\ W.status = "Completed" <=> (Opened(W) /\ W.fi > Len(W.course_structure))
        /\ W.status = "Completed" => ReportedVideos = TokenLimitedNames(W, W.calls)
        /\ W.status # "Completed" => ReportedVideos = <<>>

\* A completed run whose report lists two different over-limit videos.
C9_Witness ==
    /\ OneWorker /\ Ended(W) /\ W.status = "Completed"
    /\ Len(ReportedVideos) = 2 /\ ReportedVideos[1] # ReportedVideos[2]

\* C10: there is never more than one process_course thread; while one is
\* alive the start button is disabled, and until its finally clause has run
\* analysis_in_progress is set: a start request made meanwhile begins no run.
C10_SingleRun ==
    /\ Len(threads) <= 1
    /\ OneWorker => start_button = "disabled"
    /\ (OneWorker /\ W.pc # "reenable") => analysis_in_progress
    /\ ~OneWorker => ~analysis_in_progress

\* A start request was dropped while the worker waited on the gateway.
C10_Witness == OneWorker /\ W.pc = "call" /\ gui_note = "ignored"

\* ------------------------------------- claims on content and prompt
\* The catalog entry of the item the one worker is at.
Entry(w) == w.course_structure[w.fi].videos[w.vi]

HasSubtitle(e) == e.subtitle # NoPath
HasText(e) == e.text # NoPath

\* How a run may end according to the spec: Completed, Aborted(NoActiveKeys),
\* or before any processing (the folder cannot be scanned, or holds no video).
SpecEndings == {"Completed", "NoActiveKeys", "ScanError", "EmptyCatalog"}

\* C11: content resolution never fails and no failure of an item escapes the
\* loop: whatever sidecars an item has (none included), a run ends only as
\* Completed, as NoActiveKeys, or before any processing.
C11_NoItemFailureEscapes ==
    (OneWorker /\ Ended(W)) => W.status \in SpecEndings

EndedBeforeProcessing(w) == Ended(w) /\ w.status \in {"ScanError", "EmptyCatalog"}

\* C13: a start request naming no valid directory begins no run; a scan that
\* fails or finds no video ends the run in that very step; in all these cases
\* study_guide.txt is left as it was (not created, not truncated), no
\* ApiManager is built, no key is requested and no gateway call is made, then
\* or later.
C13_NoProcessingWithoutItems ==
    [][/\ gui_note' = "warn_folder" => (threads' = threads /\ study_guide' = study_guide)
       /\ (/\ OneWorker /\ Len(threads') = 1 /\ W.pc = "scan" /\ threads'[1].pc # "scan"
           /\ threads'[1].course_structure = <<>>)
          => /\ EndedBeforeProcessing(threads'[1])
             /\ study_guide' = study_guide
       /\ (OneWorker /\ EndedBeforeProcessing(W))
          => /\ study_guide' = study_guide
             /\ W.calls = <<>> /\ W.key = None /\ ~W.file_open
             /\ W.api_manager = ApiManager(<<>>)]_vars

\* A run that found no video has ended, and the document an earlier run wrote
\* is still there.
C13_Witness ==
    /\ OneWorker /\ W.pc = "reenable" /\ W.status = "EmptyCatalog"
    /\ study_guide # Absent
    /\ \E i \in 1..Len(study_guide) : study_guide[i][1] = "body"

\* ------------------------------------------------ claims on scenarios
\* The slots (1-based) of a manager that are active.
ActiveSlots(m) == {i \in 1..Len(m.keys) : m.keys[i].active}

\* Scenario A, as far as the run has gone: three credentials; every use of
\* the first or the second got AuthError, every use of the third a generated
\* text.
ScenarioA(w) ==
    /\ Len(w.api_manager.keys) = 3
    /\ \A i \in 1..Len(w.calls) :
          /\ w.calls[i].slot \in {0, 1} => w.calls[i].gateway = "AuthError"
          /\ w.calls[i].slot = 2 => w.calls[i].gateway = "Generated"

C15_EmptyContentIsValid ==
    [][(CallMade /\ W.pc = "call" /\ W.combined_content = <<>>
        /\ LastCall(threads'[1]).gateway = "Generated")
       => /\ study_guide' = study_guide
                \o <<<<"##", Basename(Entry(W).video)>>,
                      <<"body", LastCall(threads'[1]).response>>>>
          /\ threads'[1].api_manager = W.api_manager
          /\ threads'[1].pc \in {"item", "folder"}]_vars

\* The prompt the claim describes, with `label` as the line that introduces
\* the content.
PromptWithLabel(w, label) ==
    Strip(w.system_instruction \o <<"\n", "\n">> \o label \o <<"\n">> \o w.combined_content)
    \o (IF w.extra_prompt # <<>> THEN <<"\n", "\n">> \o w.extra_prompt ELSE <<>>)

\* C16 as stated: the prompt sent for an item is systemInstruction, a blank
\* line, the line "Content:" and the resolved content, trimmed as a whole,
\* followed by a blank line and extraInstruction exactly when that is
\* non-empty.
C16_ContentLabel ==
    (OneWorker /\ W.pc = "call") => W.prompt = PromptWithLabel(W, <<"Content:">>)

\* C16 amended: the same concatenation with the line "Noi dung video:" (the
\* source's Vietnamese label) in the place of "Content:"; with an empty
\* extraInstruction the prompt ends with the last non-blank token of what
\* precedes, no separator after it.
C16_PromptConcatenation ==
    (OneWorker /\ W.pc = "call") =>
        /\ W.prompt = PromptWithLabel(W, <<"Noi", " ", "dung", " ", "video:">>)
        /\ W.extra_prompt = <<>> => ~IsSpace(W.prompt[Len(W.prompt)])

\* A prompt without extra instruction whose content ended in a newline that
\* the trimming removed.
C16_Witness ==
    /\ OneWorker /\ W.pc = "call" /\ W.extra_prompt = <<>>
    /\ W.combined_content = <<"cue", "\n">>
    /\ W.prompt[Len(W.prompt)] = "cue"

\* ------------------------------------------- claims on the key list
\* The lines of a text, each as <<a, b>>: the line is text[a+1 .. b-1], between
\* two line breaks (or the ends of the text) with no line break inside.
LineBreaks(text) == {0, Len(text) + 1} \cup {i \in 1..Len(text) : text[i] = "\n"}
LinesAt(text) ==
    {l \in LineBreaks(text) \X LineBreaks(text) :
        /\ l[1] < l[2]
        /\ \A i \in LineBreaks(text) : ~(l[1] < i /\ i < l[2])}
NonBlankAt(text) ==
    {l \in LinesAt(text) : \E i \in (l[1] + 1)..(l[2] - 1) : ~IsSpace(text[i])}

\* The line without the white space at its two ends.
TrimmedLine(text, l) ==
    LET inked == {i \in (l[1] + 1)..(l[2] - 1) : ~IsSpace(text[i])}
        first == CHOOSE i \in inked : \A j \in inked : i <= j
        last  == CHOOSE i \in inked : \A j \in inked : i >= j
    IN  SubSeq(text, first, last)

\* The place of a non-blank line among the non-blank lines.
LineRank(text, l) == Cardinality({k \in NonBlankAt(text) : k[1] <= l[1]})

\* C17: the pool of a run has one slot per non-blank line of the keys box, in
\* the order of the lines, holding the line trimmed; lines that are blank or
\* white space only give no slot; equal secrets are not merged; all slots start
\* active and a slot is inactive exactly when a failed call used that very
\* slot, whatever secret the other slots hold.
C17_OneSlotPerLine ==
    (OneWorker /\ Opened(W)) =>
        LET text == W.api_keys_textbox
            keys == W.api_manager.keys
        IN  /\ Len(keys) = Cardinality(NonBlankAt(text))
            /\ \A l \in NonBlankAt(text) :
                  keys[LineRank(text, l)].key = TrimmedLine(text, l)
            /\ \A i \in 1..Len(keys) :
                  keys[i].active <=>
                      ~\E j \in 1..Len(W.calls) :
                          Failed(W.calls[j]) /\ W.calls[j].slot = i - 1

\* Two lines with the same secret and a white-space line between them: the
\* first slot was disabled, the second, still active, served the next call.
C17_Witness ==
    /\ OneWorker /\ Len(W.calls) = 2
    /\ Cardinality(LinesAt(W.api_keys_textbox)) > Len(W.api_manager.keys)
    /\ W.calls[1].slot = 0 /\ Failed(W.calls[1])
    /\ W.calls[2].slot = 1 /\ W.calls[2].key = W.calls[1].key
    /\ ~W.api_manager.keys[1].active /\ W.api_manager.keys[2].active

\* C18 as stated: the pool is built from a deduplicated list, so no two
\* slots hold the same secret and a secret whose slot was disabled is never
\* handed to the gateway again in the run.
C18_SecretsUnique ==
    (OneWorker /\ Opened(W)) =>
        /\ \A i, j \in 1..Len(W.api_manager.keys) :
              i # j => W.api_manager.keys[i].key # W.api_manager.keys[j].key
        /\ \A i, j \in 1..Len(W.calls) :
              (i < j /\ Failed(W.calls[i])) => W.calls[j].key # W.calls[i].key
        /\ W.pc = "call" =>
              \A i \in 1..Len(W.calls) : Failed(W.calls[i]) => W.key # W.calls[i].key

\* C18 amended: the pool is built from the trimmed non-blank list as it is,
\* equal secrets included, one slot per entry; a slot that was disabled is
\* never handed to the gateway again in the run (a secret may be, through
\* another slot that holds it).
C18_DisabledSlotNotReused ==
    (OneWorker /\ Opened(W)) =>
        /\ Len(W.api_manager.keys) = Len(W.api_keys)
        /\ \A i \in 1..Len(W.api_keys) : W.api_manager.keys[i].key = W.api_keys[i]
        /\ \A i, j \in 1..Len(W.calls) :
              (i < j /\ Failed(W.calls[i])) => W.calls[j].slot # W.calls[i].slot
        /\ W.pc = "call" =>
              /\ W.key = W.api_manager.keys[W.api_manager.current_index + 1].key
              /\ \A i \in 1..Len(W.calls) :
                    Failed(W.calls[i]) => W.api_manager.current_index # W.calls[i].slot

\* The secret of a disabled slot is about to be sent to the gateway again,
\* from the second slot that holds it.
C18_Witness ==
    /\ OneWorker /\ W.pc = "call" /\ Len(W.calls) = 1
    /\ Failed(W.calls[1]) /\ W.key = W.calls[1].key
    /\ W.api_manager.current_index = 1

\* ------------------------------------------- claims on the pool's cursor
\* The slot of the last call that returned a credential; 0, where __init__
\* puts the cursor, when there was none.
LastSuccessful ==
    LET ok == {j \in 1..Len(returned) : returned[j] # -1}
    IN  IF ok = {} THEN 0 ELSE returned[CHOOSE j \in ok : \A k \in ok : k <= j]

IsBody(chunk) == chunk[1] = "body"
GeneratedCall(c) == c.gateway = "Generated"

\* C20: an item is TokenLimited only when the gateway answered with the
\* token-limit sentinel, and every generated text, whatever it says, makes
\* the item Summarized with its section in the document.
C20_ExactClassification ==
    (OneWorker /\ Opened(W)) =>
        /\ \A i \in 1..Len(W.calls) :
              /\ W.calls[i].outcome = "TokenLimited" => W.calls[i].gateway = "TokenLimited"
              /\ W.calls[i].gateway = "Generated" => W.calls[i].outcome = "Summarized"
        /\ Len(SelectSeq(study_guide, IsBody)) = Len(SelectSeq(W.calls, GeneratedCall))

\* ------------------------------------------------ claims on termination
\* No run is going on and a start request with valid inputs would be accepted.
ReadyForStart ==
    /\ threads = <<>>
    /\ ~RunInProgress
    /\ ButtonLive

\* C21: every started run ends, however it ends (Completed, aborted or
\* crashed); once its thread is gone the flag is reset, and the button is
\* enabled again as soon as the scheduled callback has run, so that the next
\* start request is accepted.
C21_RunEndsAndResets ==
    /\ (threads # <<>>) ~> ReadyForStart
    /\ [](threads = <<>> => ~RunInProgress)
    /\ []((threads = <<>> /\ pending_enable = 0) => ButtonLive)

\* A start request was accepted after an earlier run had ended: the new
\* thread has not run yet, the log is cleared, and the heading of the earlier
\* run's document, which got no item section, is on disk.
C21_Witness ==
    /\ OneWorker /\ W.pc = "scan" /\ log_text = <<>>
    /\ RunInProgress /\ ~ButtonLive /\ pending_enable = 0
    /\ study_guide # Absent /\ Len(study_guide) = 1
    /\ study_guide[1] = <<"#", "d1">>

\* ------------------------------------------- claims on the loop's counts
SkippedCall(c) == c.outcome = "Skipped"

\* Is the loop still at an item of the catalog (one remains to be processed)?
ItemRemains(w) == w.fi <= Len(w.course_structure)

\* C22: a gateway call uses the credential at the cursor, active when the
\* call is made; at every point of a run as many credentials are disabled as
\* items were Skipped; and a run over N credentials ends with NoActiveKeys
\* exactly when N calls have failed and an item remains to be processed.
C22_DisabledEqualsSkipped ==
    (OneWorker /\ Opened(W)) =>
        LET m == W.api_manager
            N == Len(m.keys)
            skipped == Len(SelectSeq(W.calls, SkippedCall))
        IN  /\ W.pc = "call" =>
                  /\ m.keys[m.current_index + 1].active
                  /\ m.keys[m.current_index + 1].key = W.key
            /\ \A i \in 1..Len(W.calls) : m.keys[W.calls[i].slot + 1].key = W.calls[i].key
            /\ N - Cardinality(ActiveSlots(m)) = skipped
            /\ Ended(W) =>
                  (W.status = "NoActiveKeys" <=> (skipped = N /\ ItemRemains(W)))

====
